---- MODULE Spec2Model ----
(***************************************************************************)
(* Checkout backend (Express + Stripe + Supabase).  The repository holds   *)
(* seven variants of one server; `variant` says which one is deployed:     *)
(*   index_a     src/index.js            lines   1-232                     *)
(*   index_b     src/index.js            lines 235-467                     *)
(*   part_000    src/unnamed/part_000                                      *)
(*   part_001_a  src/unnamed/part_001    lines   1-522                     *)
(*   part_001_b  src/unnamed/part_001    lines 524-801                     *)
(*   part_001_c  src/unnamed/part_001    lines 803-1142                    *)
(*   part_002    src/unnamed/part_002                                      *)
(* Money: products.price and orders.total are dollars, Stripe amounts are  *)
(* cents; every amount in the model is a whole number of dollars, so the   *)
(* code's `x / 100` is the exact integer division.                         *)
(***************************************************************************)
EXTENDS Integers, Naturals, Sequences, FiniteSets, TLC

\* ------------------------------------------------------------------ bounds
MaxQty == 2          \* largest quantity of one product in a cart
MaxSessions == 1     \* checkout sessions that exist at the processor
MaxDeliveries == 2   \* webhook requests the server receives
MaxRequests == 2     \* create-checkout-session requests handled concurrently
MaxCartOps == 1      \* storefront cart mutations

\* ---------------------------------------------------------------- variants
Variants ==
  {"index_a", "index_b", "part_000", "part_001_a", "part_001_b", "part_001_c", "part_002"}

\* express.json() is mounted for every path, the webhook route included
JsonBeforeWebhook(v) == v \in {"index_a", "part_001_a"}

\* the webhook reads the cart and inserts an order from it
CartMaterializer(v) == v \in {"index_a", "index_b", "part_000", "part_001_b"}

\* the webhook inserts an order from the session's metadata.line_items
MetadataMaterializer(v) == v = "part_001_a"

\* the webhook only updates the order that has the session's id
UpdateMaterializer(v) == v \in {"part_001_c", "part_002"}

\* total: reduce over the cart (index.js) or session.amount_total / 100
TotalFromCart(v) == v \in {"index_a", "index_b"}

\* `if (clearCartError) throw clearCartError`
ChecksClearCartError(v) == v = "index_b"

\* the checkout route is behind the verifyAuth middleware
UsesVerifyAuth(v) == v \in {"part_001_a", "part_001_b", "part_001_c", "part_002"}

\* verifyAuth inserts the profile row of a user that has none
Provisions(v) == v \in {"part_001_a", "part_001_c", "part_002"}

\* ------------------------------------------------------- datastore domains
Users == {"u1", "u2"}
NoUser == "none"
Products == {"P1", "P2"}

\* products.price, in dollars
Price(p) == IF p = "P1" THEN 10 ELSE 5

Qtys == 0 .. MaxQty
Carts == [Products -> Qtys]
EmptyCart == [p \in Products |-> 0]
\* the cart of the specification's example: P1 x 2, P2 x 1
ExampleCart == [p \in Products |-> IF p = "P1" THEN 2 ELSE 1]
IsEmpty(c) == \A p \in Products : c[p] = 0
Rows(c) == {p \in Products : c[p] > 0}

RECURSIVE SumOver(_, _, _)
\* sum over the rows S of amount(p) * quantity(p)
SumOver(S, amt, qty) ==
  IF S = {} THEN 0
  ELSE LET p == CHOOSE x \in S : TRUE
       IN amt[p] * qty[p] + SumOver(S \ {p}, amt, qty)

VARIABLES
  variant,        \* which server file is deployed
  profiles,       \* table profiles: the set of ids that have a row
  carts,          \* table carts: the users that have a cart row
  cart_items,     \* table cart_items: per user, product -> quantity
  orders,         \* table orders: sequence of rows, id = position
  order_items,    \* table order_items: set of rows
  order_history,  \* table order_history: order ids with an entry
  rls,            \* row-level security enabled
  sessions,       \* the processor's checkout sessions, id = position
  wh,             \* the webhook requests, one record per delivery slot
  co,             \* the last create-checkout-session request and its answer
  cartOps,        \* storefront cart mutations so far
  env,            \* process.env: the configuration values that are set
  proc,           \* the server process: starting, listening or failed
  au              \* the verifyAuth runs in flight, one record per request slot

vars ==
  <<variant, profiles, carts, cart_items, orders, order_items, order_history,
    rls, sessions, wh, co, cartOps, env, proc, au>>

(***************************************************************************)
(* Startup: the module-level code of each server file, from the imports    *)
(* to app.listen.                                                          *)
(***************************************************************************)
EnvVars ==
  {"STRIPE_SECRET_KEY", "STRIPE_WEBHOOK_SECRET", "SUPABASE_URL",
   "SUPABASE_SERVICE_ROLE_KEY", "SUPABASE_ANON_KEY", "CORS_ORIGIN"}

\* the values the payment flow needs: both processor secrets, the datastore
\* URL and the datastore service-role key
RequiredConfig ==
  {"STRIPE_SECRET_KEY", "STRIPE_WEBHOOK_SECRET", "SUPABASE_URL",
   "SUPABASE_SERVICE_ROLE_KEY"}

\* the values whose absence makes the file's own checks throw
ValidatedConfig(v) ==
  CASE v = "index_a" ->
         {"STRIPE_SECRET_KEY", "SUPABASE_URL", "SUPABASE_SERVICE_ROLE_KEY",
          "CORS_ORIGIN"}
    [] v \in {"part_001_a", "part_002"} ->
         {"STRIPE_SECRET_KEY", "STRIPE_WEBHOOK_SECRET", "SUPABASE_URL",
          "SUPABASE_SERVICE_ROLE_KEY", "SUPABASE_ANON_KEY"}
    [] v = "part_001_c" ->
         {"STRIPE_SECRET_KEY", "SUPABASE_URL", "SUPABASE_SERVICE_ROLE_KEY",
          "SUPABASE_ANON_KEY"}
    [] OTHER -> {}

\* createClient(url, key) throws when either argument is missing
ClientConfig == {"SUPABASE_URL", "SUPABASE_SERVICE_ROLE_KEY"}

\* new Stripe(undefined) throws in some releases of the library and
\* constructs a client in others: strict is the release's behaviour
StripeThrows(e, strict) == strict /\ "STRIPE_SECRET_KEY" \notin e

\* the state the process ends in when started with the values e
StartupOutcome(v, e, strict) ==
  IF \/ ValidatedConfig(v) \ e # {}
     \/ StripeThrows(e, strict)
     \/ ClientConfig \ e # {}
  THEN "failed"
  ELSE "listening"


\* ===================================================== the payment processor
\* line_items[].price_data.unit_amount, in cents, as the client sent them:
\* the storefront's conversion of products.price, or an amount of its own
UnitAmount(unit) ==
  [p \in Products |-> IF unit = "honest" THEN Price(p) * 100 ELSE 100]

\* session.amount_total, in cents (no promotion code, free shipping)
AmountTotal(li, unit) == SumOver(Rows(li), UnitAmount(unit), li)

\* stripe.checkout.sessions.create throws on parameters the API rejects:
\* payment mode needs at least one line item and a success_url
StripeRejects(hasItems, li, hasSuccessUrl) ==
  \/ ~hasItems
  \/ IsEmpty(li)
  \/ ~hasSuccessUrl

\* ============================================================ verifyAuth
\* Authorization header: absent, "Bearer " with nothing after it, a string
\* that is no JWT, or "Bearer <jwt>" whose payload names `sub` and which the
\* auth provider verifies or not
AuthHeaders ==
  {[kind |-> k, sub |-> NoUser, verifies |-> FALSE] : k \in {"none", "empty", "garbage"}}
  \cup [kind : {"jwt"}, sub : Users, verifies : BOOLEAN]

ValidToken(u) == [kind |-> "jwt", sub |-> u, verifies |-> TRUE]

\* supabase.auth.getUser(token): the user, or NoUser together with an error
GetUser(h) == IF h.kind = "jwt" /\ h.verifies THEN h.sub ELSE NoUser

\* outcomes of the calls on profiles: select is an error of the lookup
\* (data is null); create is the outcome of the insert, "ok", "42501"
\* (permission denied) or "error"; alt is the outcome of part_002's second
\* attempt
ProfileFailures == [select : BOOLEAN, create : {"ok", "42501", "error"}, alt : BOOLEAN]

\* the insert as it would be if profiles had no key
InsertProfile_NoKey(user, outcome) == outcome

\* profiles.insert(profileData): profiles.id is the table's key, so the
\* insert of an id that has a row is answered with an error ("23505")
InsertProfile(user, outcome) == IF user \in profiles THEN "23505" ELSE outcome

\* verifyAuth as it would be if it went on after a failed insert
VerifyAuthProvisioning_IgnoreCreateError(v, h, pf, retry) ==
  LET user == GetUser(h)
      deny(st) == [status |-> st, user |-> NoUser, created |-> NoUser]
  IN IF h.kind = "none" THEN deny(401)
     ELSE IF h.kind = "empty" THEN deny(401)
     ELSE IF user = NoUser THEN deny(401)
     ELSE IF user \in profiles /\ ~pf.select
          THEN [status |-> 0, user |-> user, created |-> NoUser]
     ELSE IF InsertProfile(user, pf.create) = "ok"
          THEN [status |-> 0, user |-> user, created |-> user]
     ELSE [status |-> 0, user |-> user, created |-> NoUser]

\* verifyAuth with a profile that is created on first sight
\* answer: status 0 is next(); created is the profile row written, if any
VerifyAuthProvisioning(v, h, pf, retry) ==
  LET user == GetUser(h)
      deny(st) == [status |-> st, user |-> NoUser, created |-> NoUser]
  IN IF h.kind = "none" THEN deny(401)
     ELSE IF h.kind = "empty" THEN deny(401)
     ELSE IF user = NoUser THEN deny(401)
     ELSE IF user \in profiles /\ ~pf.select
          THEN [status |-> 0, user |-> user, created |-> NoUser]
     ELSE IF InsertProfile(user, pf.create) = "ok"
          THEN [status |-> 0, user |-> user, created |-> user]
     ELSE IF /\ retry
             /\ InsertProfile(user, pf.create) = "42501"
             /\ InsertProfile(user, IF pf.alt THEN "ok" ELSE "error") = "ok"
          THEN [status |-> 0, user |-> user, created |-> user]
     ELSE deny(500)

\* verifyAuth of part_001 lines 580-640: no provisioning, and on a
\* verification error the token's payload is decoded and trusted
VerifyAuthFallback(h, pf) ==
  LET user == GetUser(h)
      deny(st) == [status |-> st, user |-> NoUser, created |-> NoUser]
  IN IF h.kind = "none" THEN deny(401)
     ELSE IF user = NoUser
          THEN IF h.kind = "jwt" /\ h.sub \in profiles /\ ~pf.select
               THEN [status |-> 0, user |-> h.sub, created |-> NoUser]
               ELSE deny(401)
     ELSE IF user \notin profiles \/ pf.select THEN deny(401)
     ELSE [status |-> 0, user |-> user, created |-> NoUser]

verifyAuth(v, h, pf) ==
  IF v = "part_001_b" THEN VerifyAuthFallback(h, pf)
  ELSE VerifyAuthProvisioning(v, h, pf, v = "part_002")

\* ------------------------------------------------ verifyAuth, await by await
\* a run of the provisioning verifyAuth: pc is the await it stands before,
\* create the error code of its profile insert, status 0 while unanswered,
\* next whether it called next()
AuthSlots == 1 .. MaxRequests

IdleAuth ==
  [pc |-> "idle", user |-> NoUser,
   pf |-> [select |-> FALSE, create |-> "ok", alt |-> FALSE],
   create |-> "none", status |-> 0, next |-> FALSE]

\* the variants that wrap the profile insert in disable_rls / enable_rls
TogglesRls(v) == v \in {"part_001_a", "part_002"}

\* next()
AuthPass(k) == [au[k] EXCEPT !.pc = "done", !.status = 200, !.next = TRUE]

\* res.status(st).json({error})
AuthDeny(k, st) == [au[k] EXCEPT !.pc = "done", !.status = st]

\* a request with a bearer token of user u arrives and supabaseAuth.auth.getUser
\* verifies it
AuthArrive(k, u, pf) ==
  /\ au[k].pc = "idle"
  /\ \A j \in AuthSlots : j < k => au[j].pc # "idle"
  /\ au' = [au EXCEPT ![k] = [IdleAuth EXCEPT !.pc = "select", !.user = u, !.pf = pf]]
  /\ UNCHANGED <<variant, env, proc, profiles, carts, cart_items, orders, order_items,
                 order_history, rls, sessions, wh, co, cartOps>>

\* profiles.select('*').eq('id', user.id).single(); profileError is not read
SelectProfile(k) ==
  /\ au[k].pc = "select"
  /\ au' = [au EXCEPT ![k] =
       IF au[k].user \in profiles /\ ~au[k].pf.select
       THEN AuthPass(k)
       ELSE [au[k] EXCEPT !.pc = IF TogglesRls(variant) THEN "disable" ELSE "insert"]]
  /\ UNCHANGED <<variant, env, proc, profiles, carts, cart_items, orders, order_items,
                 order_history, rls, sessions, wh, co, cartOps>>

\* supabaseAdmin.rpc('disable_rls')
DisableRls(k) ==
  /\ au[k].pc = "disable"
  /\ rls' = FALSE
  /\ au' = [au EXCEPT ![k].pc = "insert"]
  /\ UNCHANGED <<variant, env, proc, profiles, carts, cart_items, orders, order_items,
                 order_history, sessions, wh, co, cartOps>>

\* profiles.insert(profileData).select().single()
InsertProfileRow(k) ==
  /\ au[k].pc = "insert"
  /\ LET out == InsertProfile(au[k].user, au[k].pf.create)
     IN /\ profiles' = IF out = "ok" THEN profiles \cup {au[k].user} ELSE profiles
        /\ au' = [au EXCEPT ![k] =
             IF TogglesRls(variant) THEN [au[k] EXCEPT !.pc = "enable", !.create = out]
             ELSE IF out = "ok" THEN [AuthPass(k) EXCEPT !.create = out]
             ELSE [AuthDeny(k, 500) EXCEPT !.create = out]]
  /\ UNCHANGED <<variant, env, proc, carts, cart_items, orders, order_items,
                 order_history, rls, sessions, wh, co, cartOps>>

\* supabaseAdmin.rpc('enable_rls'), then the look at createError
EnableRls(k) ==
  /\ au[k].pc = "enable"
  /\ rls' = TRUE
  /\ au' = [au EXCEPT ![k] =
       IF au[k].create = "ok" THEN AuthPass(k)
       ELSE IF variant = "part_002" /\ au[k].create = "42501"
       THEN [au[k] EXCEPT !.pc = "alt"]
       ELSE AuthDeny(k, 500)]
  /\ UNCHANGED <<variant, env, proc, profiles, carts, cart_items, orders, order_items,
                 order_history, sessions, wh, co, cartOps>>

\* part_002's second insert after a permission-denied error
AltInsert(k) ==
  /\ au[k].pc = "alt"
  /\ LET out == InsertProfile(au[k].user, IF au[k].pf.alt THEN "ok" ELSE "error")
     IN /\ profiles' = IF out = "ok" THEN profiles \cup {au[k].user} ELSE profiles
        /\ au' = [au EXCEPT ![k] =
             IF out = "ok" THEN [AuthPass(k) EXCEPT !.create = out]
             ELSE [AuthDeny(k, 500) EXCEPT !.create = out]]
  /\ UNCHANGED <<variant, env, proc, carts, cart_items, orders, order_items,
                 order_history, rls, sessions, wh, co, cartOps>>

\* =========================================== POST create-checkout-session
NoEmail == "none"
\* an address stands for the auth user it belongs to
Emails == Users \cup {"stranger"}

\* req.body
Bodies ==
  [has_line_items : BOOLEAN,          \* line_items is present
   line_items : Carts,                \* the list; EmptyCart is []
   product_ids : BOOLEAN,             \* every item carries metadata.product_id
   unit : {"honest", "tampered"},     \* the unit amounts the client sent
   success_url : BOOLEAN,
   cancel_url : BOOLEAN,
   customer_email : Emails \cup {NoEmail},
   user_id : Users \cup {NoUser}]

\* outcomes of the outbound calls of one request
CheckoutFailures ==
  [lookup : BOOLEAN,    \* the user lookup returns an error
   stripe : BOOLEAN,    \* the processor is unavailable
   order : BOOLEAN,     \* the insert into orders returns an error
   profile : ProfileFailures]

\* every outbound call succeeds
NoFailure ==
  [lookup |-> FALSE, stripe |-> FALSE, order |-> FALSE,
   profile |-> [select |-> FALSE, create |-> "ok", alt |-> FALSE]]

\* `!line_items || !success_url || !cancel_url || !customer_email`
MissingRequiredFields(b, withUserId) ==
  \/ ~b.has_line_items
  \/ ~b.success_url
  \/ ~b.cancel_url
  \/ b.customer_email = NoEmail
  \/ withUserId /\ b.user_id = NoUser

\* `!line_items?.length`
NoItemsInCart(b) == ~b.has_line_items \/ IsEmpty(b.line_items)

Answer(st, called, uid, prof, ord) ==
  [status |-> st, stripeCalled |-> called, user |-> uid, created |-> prof, order |-> ord]

\* the call of stripe.checkout.sessions.create and what follows it
CreateSession(v, b, f, uid, prof, hasSuccessUrl) ==
  IF f.stripe \/ StripeRejects(b.has_line_items, b.line_items, hasSuccessUrl)
  THEN Answer(500, TRUE, NoUser, prof, FALSE)
  ELSE IF v = "part_001_c" /\ f.order
  THEN Answer(500, TRUE, uid, prof, FALSE)
  ELSE Answer(200, TRUE, uid, prof, v = "part_001_c")

\* the handler (and verifyAuth before it): the answer's status, whether the
\* processor was called, metadata.user_id of the session it created (status
\* 200, or 500 after the session was created), the profile row it wrote and
\* whether it inserted a pending order
CreateCheckoutSession(v, b, h, f) ==
  LET a == verifyAuth(v, h, f.profile)
      email == b.customer_email
  IN CASE v \in {"index_a", "index_b"} ->
            IF MissingRequiredFields(b, FALSE) THEN Answer(400, FALSE, NoUser, NoUser, FALSE)
            ELSE IF f.lookup
                 THEN Answer(IF v = "index_a" THEN 401 ELSE 500, FALSE, NoUser, NoUser, FALSE)
            ELSE IF email \notin Users THEN Answer(401, FALSE, NoUser, NoUser, FALSE)
            ELSE CreateSession(v, b, f, email, NoUser, b.success_url)
       [] v = "part_000" ->
            IF MissingRequiredFields(b, TRUE) THEN Answer(400, FALSE, NoUser, NoUser, FALSE)
            ELSE IF f.lookup \/ b.user_id \notin profiles \/ email # b.user_id
                 THEN Answer(401, FALSE, NoUser, NoUser, FALSE)
            ELSE CreateSession(v, b, f, b.user_id, NoUser, b.success_url)
       [] v = "part_001_a" ->
            IF a.status # 0 THEN Answer(a.status, FALSE, NoUser, a.created, FALSE)
            ELSE IF NoItemsInCart(b) THEN Answer(400, FALSE, NoUser, a.created, FALSE)
            ELSE IF ~b.product_ids THEN Answer(400, FALSE, NoUser, a.created, FALSE)
            ELSE CreateSession(v, b, f, a.user, a.created, TRUE)
       [] v = "part_001_b" ->
            IF a.status # 0 THEN Answer(a.status, FALSE, NoUser, a.created, FALSE)
            ELSE IF MissingRequiredFields(b, TRUE) THEN Answer(400, FALSE, NoUser, a.created, FALSE)
            ELSE IF a.user # b.user_id THEN Answer(401, FALSE, NoUser, a.created, FALSE)
            ELSE CreateSession(v, b, f, b.user_id, a.created, b.success_url)
       [] v \in {"part_001_c", "part_002"} ->
            IF a.status # 0 THEN Answer(a.status, FALSE, NoUser, a.created, FALSE)
            ELSE IF NoItemsInCart(b) THEN Answer(400, FALSE, NoUser, a.created, FALSE)
            ELSE CreateSession(v, b, f, a.user, a.created, b.success_url)


\* the identity the request was resolved to: the auth user found by
\* customer_email (index.js), the profile found by user_id and e-mail
\* (part_000), or req.user.id as verifyAuth set it
ResolvedIdentity(v, b, h, f) ==
  CASE v \in {"index_a", "index_b"} ->
         IF ~f.lookup /\ b.customer_email \in Users THEN b.customer_email ELSE NoUser
    [] v = "part_000" ->
         IF ~f.lookup /\ b.user_id \in profiles /\ b.customer_email = b.user_id
         THEN b.user_id ELSE NoUser
    [] OTHER -> verifyAuth(v, h, f.profile).user

\* a checkout session as it would be if the handler attached no metadata
NewSession_NoMetadata(uid, who, li, unit, known, server, meta) ==
  [user_id |-> NoUser,
   identity |-> who,
   line_items |-> li,
   unit |-> unit,
   amount_total |-> AmountTotal(li, unit),
   state |-> "open",
   payment_status |-> "unpaid",
   known |-> known,
   server |-> server,
   meta_items |-> meta,
   has_metadata |-> TRUE]

\* a checkout session at the processor
NewSession(uid, who, li, unit, known, server, meta) ==
  [user_id |-> uid,                 \* metadata.user_id, NoUser when absent
   identity |-> who,                \* the identity resolved for the creating request
   line_items |-> li,
   unit |-> unit,
   amount_total |-> AmountTotal(li, unit),
   state |-> "open",                \* "open" or "complete"
   payment_status |-> "unpaid",
   known |-> known,                 \* the shopper was given the session id
   server |-> server,               \* created by this server's checkout endpoint
   meta_items |-> meta,             \* metadata.line_items is set
   has_metadata |-> TRUE]           \* session.metadata is an object, not null

\* the row part_001_c inserts into orders at checkout
PendingOrder(uid, sid, amount) ==
  [id |-> Len(orders) + 1, user_id |-> uid, status |-> "pending",
   total |-> amount \div 100, stripe_session_id |-> sid, payment_status |-> "none"]

\* what a create-checkout-session request with answer res, resolved to the
\* identity who, leaves behind
CheckoutEffects(b, res, who) ==
  LET made == res.stripeCalled /\ res.user # NoUser
      sid == Len(sessions) + 1
  IN /\ profiles' = IF res.created # NoUser THEN profiles \cup {res.created} ELSE profiles
     /\ sessions' = IF made
                    THEN Append(sessions,
                           NewSession(res.user, who, b.line_items, b.unit, res.status = 200,
                                      TRUE, variant = "part_001_a"))
                    ELSE sessions
     /\ orders' = IF res.order
                  THEN Append(orders, PendingOrder(res.user, sid, AmountTotal(b.line_items, b.unit)))
                  ELSE orders

\* ================================================================ webhooks
Completed == "checkout.session.completed"
EventTypes == {Completed, "payment_intent.succeeded"}
NoEvent == [type |-> "none", sid |-> 0]

WebhookSecret == "whsec"
ForgedKey == "forged"
\* the stripe-signature header: absent, or a signature made with `key` over
\* the bytes of `payload`
NoSig == [present |-> FALSE, key |-> ForgedKey, payload |-> NoEvent]
Signed(key, ev) == [present |-> TRUE, key |-> key, payload |-> ev]

\* what the webhook handler gets as req.body: the raw bytes (express.raw)
\* or the object express.json() already made of them
BodyForm(v) == IF JsonBeforeWebhook(v) THEN "parsed" ELSE "raw"

\* constructEvent as it would be if the signature were not compared with one
\* computed from the shared secret
constructEvent_NoSecret(form, body, sig) ==
  /\ form = "raw"
  /\ sig.present
  /\ sig.payload = body

\* stripe.webhooks.constructEvent(req.body, sig, secret) does not throw
constructEvent(form, body, sig) ==
  /\ form = "raw"
  /\ sig.present
  /\ sig.key = WebhookSecret
  /\ sig.payload = body

IdleReq ==
  [pc |-> "idle", ev |-> NoEvent, sig |-> NoSig,
   cartItems |-> EmptyCart,   \* the handler's cartItems
   orderId |-> 0,             \* order.id of the row this run inserted
   resp |-> 0,                \* HTTP status of the answer, 0 while none
   db |-> {},                 \* datastore calls this run made
   wrote |-> {},              \* tables this run changed
   cartLeft |-> -1]           \* cart rows left when the run answered after the clear

Slots == 1 .. MaxDeliveries
Sess(r) == sessions[wh[r].ev.sid]

\* res.status(st) ends the run
Respond(r, st, call) ==
  [wh[r] EXCEPT !.pc = "done", !.resp = st, !.db = @ \cup call]

Step(r, pc, call) == [wh[r] EXCEPT !.pc = pc, !.db = @ \cup call]

\* an event the processor itself has sent: completed only for a session
\* whose checkout was completed
Genuine(ev) ==
  /\ ev.sid \in 1 .. Len(sessions)
  /\ ev.type \in EventTypes
  /\ ev.type = Completed => sessions[ev.sid].state = "complete"

\* the handler as it would be if it materialized every verified event
IsCheckoutCompleted_AnyType(ev) == TRUE

\* event.type === 'checkout.session.completed'
IsCheckoutCompleted(ev) == ev.type = Completed

\* the handler reads session.metadata.user_id before its try block (the cart
\* variants: the TypeError of a null metadata leaves the async handler), in
\* the first statement of the try block (part_001_a, part_002), or only when
\* it clears the cart (part_001_c)
ReadsMetadataOutsideTry(v) == CartMaterializer(v)
ReadsMetadataFirst(v) == v \in {"part_001_a", "part_002"}

\* what becomes of a request whose async handler rejected: Express 4 leaves
\* it without response (0), Express 5 hands the error to its own error
\* handler, which answers 500
EscapeOutcomes == {0, 500}

\* the request reaches the route: body parsers, signature check, dispatch
WebhookReceive(r, ev, sig) ==
  /\ wh[r].pc = "idle"
  /\ \A q \in Slots : q < r => wh[q].pc # "idle"
  /\ ev.sid \in 1 .. Len(sessions)
  /\ sig.present /\ sig.key = WebhookSecret => Genuine(sig.payload)
  /\ \E out \in EscapeOutcomes :
     LET req == [wh[r] EXCEPT !.ev = ev, !.sig = sig]
         s == sessions[ev.sid]
         first == CASE CartMaterializer(variant) -> "getCart"
                    [] MetadataMaterializer(variant) -> "insertOrder"
                    [] UpdateMaterializer(variant) -> "updateOrder"
     IN wh' = [wh EXCEPT ![r] =
          IF ~constructEvent(BodyForm(variant), ev, sig)
          THEN [req EXCEPT !.pc = "done", !.resp = 400]
          ELSE IF ~IsCheckoutCompleted(ev)
          THEN [req EXCEPT !.pc = "done", !.resp = 200]
          ELSE IF ~s.has_metadata /\ ReadsMetadataOutsideTry(variant)
          THEN [req EXCEPT !.pc = "escaped", !.resp = out]
          ELSE IF ~s.has_metadata /\ ReadsMetadataFirst(variant)
          THEN [req EXCEPT !.pc = "done", !.resp = 500]
          ELSE IF MetadataMaterializer(variant) /\ s.payment_status # "paid"
          THEN [req EXCEPT !.pc = "done", !.resp = 200]
          ELSE IF MetadataMaterializer(variant) /\ ~s.meta_items
          THEN [req EXCEPT !.pc = "done", !.resp = 400]
          ELSE [req EXCEPT !.pc = first]]
  /\ UNCHANGED <<variant, env, proc, au, profiles, carts, cart_items, orders, order_items,
                 order_history, rls, sessions, co, cartOps>>

\* carts.select('id').eq('user_id', userId).single()
GetCart(r) ==
  /\ wh[r].pc = "getCart"
  /\ \E ok \in BOOLEAN :
       wh' = [wh EXCEPT ![r] =
         IF ok /\ Sess(r).user_id \in carts
         THEN Step(r, "getItems", {"carts.select"})
         ELSE Respond(r, 500, {"carts.select"})]
  /\ UNCHANGED <<variant, env, proc, au, profiles, carts, cart_items, orders, order_items,
                 order_history, rls, sessions, co, cartOps>>

\* cart_items.select(...products(...)).eq('cart_id', cartData.id)
GetItems(r) ==
  /\ wh[r].pc = "getItems"
  /\ \E ok \in BOOLEAN :
       wh' = [wh EXCEPT ![r] =
         IF ok
         THEN [Step(r, "insertOrder", {"cart_items.select"})
                 EXCEPT !.cartItems = cart_items[Sess(r).user_id]]
         ELSE Respond(r, 500, {"cart_items.select"})]
  /\ UNCHANGED <<variant, env, proc, au, profiles, carts, cart_items, orders, order_items,
                 order_history, rls, sessions, co, cartOps>>

\* cartItems.reduce((sum, item) => sum + item.products.price * item.quantity, 0)
CartTotal(c) == SumOver(Rows(c), [p \in Products |-> Price(p)], c)

\* the total the handler puts in the order row
OrderTotal(v, c, s) ==
  IF TotalFromCart(v) THEN CartTotal(c) ELSE s.amount_total \div 100

\* the row the webhook handler inserts into orders
OrderRow(v, r) ==
  [id |-> Len(orders) + 1,
   user_id |-> Sess(r).user_id,
   status |-> IF MetadataMaterializer(v) THEN "processing" ELSE "completed",
   total |-> OrderTotal(v, wh[r].cartItems, Sess(r)),
   stripe_session_id |-> wh[r].ev.sid,
   payment_status |-> Sess(r).payment_status]

\* orders.insert(...).select().single(); part_001_a calls disable_rls first
InsertOrder(r) ==
  /\ wh[r].pc = "insertOrder"
  /\ rls' = IF MetadataMaterializer(variant) THEN FALSE ELSE rls
  /\ \E ok \in BOOLEAN :
       IF ok
       THEN /\ orders' = Append(orders, OrderRow(variant, r))
            /\ wh' = [wh EXCEPT ![r] =
                 [Step(r, "insertItems", {"orders.insert"})
                    EXCEPT !.orderId = Len(orders) + 1, !.wrote = @ \cup {"orders"}]]
       ELSE /\ orders' = orders
            /\ wh' = [wh EXCEPT ![r] = Respond(r, 500, {"orders.insert"})]
  /\ UNCHANGED <<variant, env, proc, au, profiles, carts, cart_items, order_items,
                 order_history, sessions, co, cartOps>>

\* cartItems.map(...) / lineItems.map(...): the rows for order_items
OrderItems(v, r) ==
  IF MetadataMaterializer(v)
  THEN {[order_id |-> wh[r].orderId, product_id |-> p,
         quantity |-> Sess(r).line_items[p],
         price |-> UnitAmount(Sess(r).unit)[p] \div 100] : p \in Rows(Sess(r).line_items)}
  ELSE {[order_id |-> wh[r].orderId, product_id |-> p,
         quantity |-> wh[r].cartItems[p],
         price |-> Price(p)] : p \in Rows(wh[r].cartItems)}

\* the insert as it would be if every variant logged an error and went on
InsertItems_LogOnly(r) ==
  /\ wh[r].pc = "insertItems"
  /\ \E ok \in BOOLEAN :
       IF ok
       THEN /\ order_items' = order_items \cup OrderItems(variant, r)
            /\ wh' = [wh EXCEPT ![r] =
                 [Step(r, "clearCart", {"order_items.insert"})
                    EXCEPT !.wrote = @ \cup {"order_items"}]]
       ELSE /\ order_items' = order_items
            /\ wh' = [wh EXCEPT ![r] = Step(r, "clearCart", {"order_items.insert"})]
  /\ UNCHANGED <<variant, env, proc, au, profiles, carts, cart_items, orders,
                 order_history, rls, sessions, co, cartOps>>

\* order_items.insert(orderItems): the cart variants throw on an error,
\* part_001_a logs it and goes on
InsertItems(r) ==
  /\ wh[r].pc = "insertItems"
  /\ \E ok \in BOOLEAN :
       IF ok
       THEN /\ order_items' = order_items \cup OrderItems(variant, r)
            /\ wh' = [wh EXCEPT ![r] =
                 [Step(r, "clearCart", {"order_items.insert"})
                    EXCEPT !.wrote = @ \cup {"order_items"}]]
       ELSE /\ order_items' = order_items
            /\ wh' = [wh EXCEPT ![r] =
                 IF MetadataMaterializer(variant)
                 THEN Step(r, "clearCart", {"order_items.insert"})
                 ELSE Respond(r, 500, {"order_items.insert"})]
  /\ UNCHANGED <<variant, env, proc, au, profiles, carts, cart_items, orders,
                 order_history, rls, sessions, co, cartOps>>

\* the status the update variants write
UpdatedStatus(v) == IF v = "part_002" THEN "received" ELSE "completed"

\* the handler inserts a completed row for the session instead of updating
UpdateOrder_Insert(r) ==
  /\ wh[r].pc = "updateOrder"
  /\ \E ok \in BOOLEAN :
       IF ok
       THEN /\ orders' = Append(orders,
                 [id |-> Len(orders) + 1, user_id |-> Sess(r).user_id,
                  status |-> UpdatedStatus(variant), total |-> 0,
                  stripe_session_id |-> wh[r].ev.sid,
                  payment_status |-> Sess(r).payment_status])
            /\ wh' = [wh EXCEPT ![r] =
                 [Step(r, "clearCart", {"orders.update"})
                    EXCEPT !.wrote = @ \cup {"orders"}]]
       ELSE /\ orders' = orders
            /\ wh' = [wh EXCEPT ![r] = Respond(r, 500, {"orders.update"})]
  /\ UNCHANGED <<variant, env, proc, au, profiles, carts, cart_items, order_items,
                 order_history, rls, sessions, co, cartOps>>

\* orders.update({status, payment_status, ...}).eq('stripe_session_id', session.id)
UpdateOrder(r) ==
  /\ wh[r].pc = "updateOrder"
  /\ \E ok \in BOOLEAN :
       IF ok
       THEN /\ orders' = [i \in DOMAIN orders |->
                 IF orders[i].stripe_session_id = wh[r].ev.sid
                 THEN [orders[i] EXCEPT !.status = UpdatedStatus(variant),
                                        !.payment_status = Sess(r).payment_status]
                 ELSE orders[i]]
            /\ wh' = [wh EXCEPT ![r] =
                 [Step(r, "clearCart", {"orders.update"})
                    EXCEPT !.wrote = IF orders' # orders THEN @ \cup {"orders"} ELSE @]]
       ELSE /\ orders' = orders
            /\ wh' = [wh EXCEPT ![r] = Respond(r, 500, {"orders.update"})]
  /\ UNCHANGED <<variant, env, proc, au, profiles, carts, cart_items, order_items,
                 order_history, rls, sessions, co, cartOps>>

\* cart rows of user u
CartRows(ci, u) == IF u \in Users THEN Cardinality(Rows(ci[u])) ELSE 0

\* cart_items.delete().eq(...), then the answer; only index_b looks at the
\* delete's error.  part_001_a re-enables RLS and inserts into order_history
\* before it answers.  part_001_c reads session.metadata.user_id here, inside
\* its try block
ClearCart(r) ==
  /\ wh[r].pc = "clearCart"
  /\ \E ok \in BOOLEAN, hist \in BOOLEAN :
       LET uid == Sess(r).user_id
           cleared == /\ ok /\ Sess(r).has_metadata
                      /\ uid \in Users /\ ~IsEmpty(cart_items[uid])
       IN /\ cart_items' = IF cleared THEN [cart_items EXCEPT ![uid] = EmptyCart]
                           ELSE cart_items
          /\ order_history' =
               IF MetadataMaterializer(variant) /\ hist
               THEN order_history \cup {wh[r].orderId} ELSE order_history
          /\ wh' = [wh EXCEPT ![r] =
               IF ~Sess(r).has_metadata
               THEN Respond(r, 500, {})
               ELSE IF ~ok /\ ChecksClearCartError(variant)
               THEN Respond(r, 500, {"cart_items.delete"})
               ELSE [Respond(r, 200, {"cart_items.delete"})
                       EXCEPT !.wrote = IF cleared THEN @ \cup {"cart_items"} ELSE @,
                              !.cartLeft = CartRows(cart_items', uid)]]
  /\ rls' = IF MetadataMaterializer(variant) THEN TRUE ELSE rls
  /\ UNCHANGED <<variant, env, proc, au, profiles, carts, orders, order_items, sessions, co, cartOps>>

\* ============================================================ environment
\* the storefront adds one unit of a product to a shopper's cart
AddToCart(u, p) ==
  /\ u \in carts
  /\ cartOps < MaxCartOps
  /\ cart_items[u][p] < MaxQty
  /\ cart_items' = [cart_items EXCEPT ![u][p] = @ + 1]
  /\ cartOps' = cartOps + 1
  /\ UNCHANGED <<variant, env, proc, au, profiles, carts, orders, order_items, order_history,
                 rls, sessions, wh, co>>

\* the storefront takes one unit of a product out of a shopper's cart
RemoveFromCart(u, p) ==
  /\ u \in carts
  /\ cartOps < MaxCartOps
  /\ cart_items[u][p] > 0
  /\ cart_items' = [cart_items EXCEPT ![u][p] = @ - 1]
  /\ cartOps' = cartOps + 1
  /\ UNCHANGED <<variant, env, proc, au, profiles, carts, orders, order_items, order_history,
                 rls, sessions, wh, co>>

\* the request the storefront sends for shopper u: the cart as line items,
\* both URLs, the shopper's e-mail, id and bearer token
StorefrontBody(u, unit) ==
  [has_line_items |-> TRUE,
   line_items |-> IF u \in carts THEN cart_items[u] ELSE ExampleCart,
   product_ids |-> TRUE, unit |-> unit,
   success_url |-> TRUE, cancel_url |-> TRUE,
   customer_email |-> u, user_id |-> u]

\* POST create-checkout-session, sent by the storefront for a shopper
ShopperCheckout(u, unit, f) ==
  /\ Len(sessions) < MaxSessions
  /\ ~IsEmpty(StorefrontBody(u, unit).line_items)
  /\ LET b == StorefrontBody(u, unit)
         res == CreateCheckoutSession(variant, b, ValidToken(u), f)
     IN CheckoutEffects(b, res, ResolvedIdentity(variant, b, ValidToken(u), f))
  /\ UNCHANGED <<variant, env, proc, au, carts, cart_items, order_items, order_history,
                 rls, wh, co, cartOps>>

\* the request bodies: line_items absent, [] or the example cart
RequestBodies ==
  {b \in Bodies :
     /\ b.line_items \in {EmptyCart, ExampleCart}
     /\ ~b.has_line_items => b.line_items = EmptyCart
     /\ b.unit = "honest"}

\* one unit of P1
SingleItem == [p \in Products |-> IF p = "P1" THEN 1 ELSE 0]

\* complete bodies that name any e-mail and any user id, for line items that
\* need not be the caller's cart
ClientBodies ==
  [has_line_items : {TRUE}, line_items : {ExampleCart, SingleItem},
   product_ids : {TRUE}, unit : {"honest"},
   success_url : {TRUE}, cancel_url : {TRUE},
   customer_email : Emails \cup {NoEmail},
   user_id : Users \cup {NoUser}]

\* POST create-checkout-session from any client: whatever body and
\* Authorization header, every outbound call succeeding
ClientCheckout(b, h) ==
  /\ Len(sessions) < MaxSessions
  /\ CheckoutEffects(b, CreateCheckoutSession(variant, b, h, NoFailure),
                     ResolvedIdentity(variant, b, h, NoFailure))
  /\ UNCHANGED <<variant, env, proc, au, carts, cart_items, order_items, order_history,
                 rls, wh, co, cartOps>>

\* a session of the same processor account that this server did not create:
\* its metadata has no user_id, or it has no metadata at all
ExternalSession ==
  /\ Len(sessions) < MaxSessions
  /\ \E m \in BOOLEAN :
       sessions' = Append(sessions,
                     [NewSession(NoUser, NoUser, ExampleCart, "honest", TRUE, FALSE, FALSE)
                        EXCEPT !.has_metadata = m])
  /\ UNCHANGED <<variant, env, proc, au, profiles, carts, cart_items, orders, order_items,
                 order_history, rls, wh, co, cartOps>>

\* the shopper completes the hosted checkout; with a 100 % promotion code
\* nothing is charged and payment_status is no_payment_required
CompleteCheckout(s, ps) ==
  /\ s \in 1 .. Len(sessions)
  /\ sessions[s].state = "open"
  /\ sessions[s].known
  /\ sessions' = [sessions EXCEPT ![s].state = "complete", ![s].payment_status = ps]
  /\ UNCHANGED <<variant, env, proc, au, profiles, carts, cart_items, orders, order_items,
                 order_history, rls, wh, co, cartOps>>

\* ========================================================== specification
\* the last create-checkout-session request: status 0 while it is not
\* answered; next says that verifyAuth called next(), identity is req.user.id
\* (or the user the handler looked up), hadProfile that the token's subject
\* had a profile row when the request arrived
Request(b, h, f) ==
  [status |-> 0, stripeCalled |-> FALSE, user |-> NoUser, created |-> NoUser,
   order |-> FALSE, next |-> FALSE, identity |-> NoUser, hadProfile |-> FALSE,
   body |-> b, auth |-> h, fail |-> f]

\* the datastore and the processor when the server starts
InitTables ==
  /\ variant \in Variants
  /\ profiles = {"u1"}
  /\ carts = {"u1"}
  /\ cart_items = [u \in Users |-> IF u = "u1" THEN ExampleCart ELSE EmptyCart]
  /\ orders = <<>>
  /\ order_items = {}
  /\ order_history = {}
  /\ rls = TRUE
  /\ sessions = <<>>
  /\ wh = [r \in Slots |-> IdleReq]
  /\ cartOps = 0

\* a server that was started with every value set and is listening
InitStore ==
  /\ InitTables
  /\ env = EnvVars
  /\ proc = "listening"
  /\ au = [k \in AuthSlots |-> IdleAuth]

Init ==
  /\ InitStore
  /\ co = Request(StorefrontBody("u1", "honest"), ValidToken("u1"), NoFailure)

Events == [type : EventTypes, sid : 1 .. MaxSessions]

\* the body ev with its type field rewritten
Tampered(ev) ==
  [ev EXCEPT !.type = IF @ = Completed THEN "payment_intent.succeeded" ELSE Completed]

\* the signature headers a request can carry for the body ev: none, the
\* processor's own over these bytes, one made without the shared secret, or
\* the processor's over the bytes before they were tampered with
SigsFor(ev) ==
  {NoSig, Signed(WebhookSecret, ev), Signed(ForgedKey, ev),
   Signed(WebhookSecret, Tampered(ev))}

Receive == \E r \in Slots, ev \in Events : \E sig \in SigsFor(ev) : WebhookReceive(r, ev, sig)
\* every outbound call succeeds, or exactly one of them fails
SingleFailures ==
  {f \in CheckoutFailures :
     Cardinality({c \in {"lookup", "stripe", "order", "select", "create"} :
                    CASE c = "select" -> f.profile.select
                      [] c = "create" -> f.profile.create # "ok"
                      [] OTHER -> f[c]}) <= 1}

Checkout ==
  \E u \in Users, unit \in {"honest", "tampered"}, f \in SingleFailures :
    ShopperCheckout(u, unit, f)
Complete == \E s \in 1 .. MaxSessions, ps \in {"paid", "no_payment_required"} : CompleteCheckout(s, ps)
Storefront == \E u \in Users, p \in Products : AddToCart(u, p) \/ RemoveFromCart(u, p)

Next ==
  \/ Receive
  \/ \E r \in Slots : GetCart(r)
  \/ \E r \in Slots : GetItems(r)
  \/ \E r \in Slots : InsertOrder(r)
  \/ \E r \in Slots : InsertItems(r)
  \/ \E r \in Slots : UpdateOrder(r)
  \/ \E r \in Slots : ClearCart(r)
  \/ Checkout
  \/ ExternalSession
  \/ Complete
  \/ Storefront

Spec == Init /\ [][Next]_vars


\* ===================================== one notification on a quiet server
\* no webhook request has arrived yet
Quiet == \A r \in Slots : wh[r].pc = "idle"

QuietCheckout == Quiet /\ Checkout
QuietClientCheckout ==
  Quiet /\ \E b \in ClientBodies, h \in AuthHeaders : ClientCheckout(b, h)
QuietExternalSession == Quiet /\ ExternalSession
QuietComplete == Quiet /\ Complete
QuietStorefront == Quiet /\ Storefront
QuietReceive == Quiet /\ Receive

\* sessions are created and completed and carts change, then one
\* notification arrives and is handled to its answer
NextRequest ==
  \/ QuietCheckout
  \/ QuietClientCheckout
  \/ QuietExternalSession
  \/ QuietComplete
  \/ QuietStorefront
  \/ QuietReceive
  \/ \E r \in Slots : GetCart(r)
  \/ \E r \in Slots : GetItems(r)
  \/ \E r \in Slots : InsertOrder(r)
  \/ \E r \in Slots : InsertItems(r)
  \/ \E r \in Slots : UpdateOrder(r)
  \/ \E r \in Slots : ClearCart(r)

SpecRequest == Init /\ [][NextRequest]_vars

\* ================================================================= claims
\* C1: in every reachable state, whatever notifications were delivered, replayed
\* or handled concurrently, the orders table holds at most one Order per
\* processor session id.
C1_OneOrderPerSession ==
  \A i, j \in DOMAIN orders :
    orders[i].stripe_session_id = orders[j].stripe_session_id => i = j


\* the run in slot r has answered
Answered(r) == wh[r].pc = "done"

\* the signature header of the request in slot r is the processor's own
\* signature over the bytes of its body
CorrectlySigned(r) ==
  /\ wh[r].sig.present
  /\ wh[r].sig.key = WebhookSecret
  /\ wh[r].sig.payload = wh[r].ev

\* the run in slot r got a verified checkout-completed notification
VerifiedCompleted(r) ==
  /\ wh[r].pc # "idle"
  /\ constructEvent(BodyForm(variant), wh[r].ev, wh[r].sig)
  /\ wh[r].ev.type = Completed

\* the rows of order_items that belong to order id
ItemsOfOrder(id) == {row \in order_items : row.order_id = id}

\* one row per cart item, with the item's product id, quantity and price
RowsFromCart(id, c) ==
  {[order_id |-> id, product_id |-> p, quantity |-> c[p], price |-> Price(p)] :
     p \in Rows(c)}

\* C2: when the storefront changed the cart between the creation of the session
\* and the handling of its payment-completed notification, the Order the webhook
\* handler created has the total and the line items of the cart it read while
\* handling the notification, not those fixed at session creation.
C2_OrderReflectsCartAtCompletion ==
  \A r \in Slots :
    ( /\ Answered(r) /\ wh[r].resp = 200 /\ wh[r].orderId # 0
      /\ "cart_items.select" \in wh[r].db
      /\ cartOps > 0
      /\ Sess(r).line_items # wh[r].cartItems
      /\ \A q \in Slots : "cart_items" \notin wh[q].wrote \/ q = r )
    => /\ orders[wh[r].orderId].total = CartTotal(wh[r].cartItems)
       /\ ItemsOfOrder(wh[r].orderId) = RowsFromCart(wh[r].orderId, wh[r].cartItems)

\* C3: for every cart the Order Materializer read, the Order it inserted has
\* total = sum over the cart items of price * quantity, and the order items it
\* wrote are exactly one row per cart item with that item's product id, quantity
\* and price.
C3_TotalAndItemsFromCart ==
  \A r \in Slots :
    ( wh[r].orderId # 0 /\ "cart_items.select" \in wh[r].db )
    => /\ orders[wh[r].orderId].total = CartTotal(wh[r].cartItems)
       /\ "order_items" \in wh[r].wrote =>
            /\ ItemsOfOrder(wh[r].orderId) = RowsFromCart(wh[r].orderId, wh[r].cartItems)
            /\ Cardinality(ItemsOfOrder(wh[r].orderId)) = Cardinality(Rows(wh[r].cartItems))

\* C4: whenever the handler answers {received: true} to a verified
\* checkout-completed notification that it materialized, the originating cart
\* has no cart item left at the moment of the answer.
C4_CartEmptyOnSuccess ==
  \A r \in Slots :
    ( /\ Answered(r) /\ wh[r].resp = 200 /\ VerifiedCompleted(r)
      /\ "cart_items.delete" \in wh[r].db )
    => wh[r].cartLeft = 0

\* C5: a verified checkout-completed notification whose session metadata has no
\* user id gets a non-success answer and its run writes nothing to the datastore.
C5_MissingCorrelationFails ==
  \A r \in Slots :
    ( VerifiedCompleted(r) /\ Sess(r).user_id = NoUser )
    => /\ wh[r].wrote = {}
       /\ Answered(r) => wh[r].resp # 200

\* C6: a webhook request whose signature header is missing or does not verify
\* against the shared secret is answered 400 and its run makes no datastore
\* call, whatever the payload.
C6_BadSignatureRejected ==
  \A r \in Slots :
    ( wh[r].pc # "idle" /\ ~CorrectlySigned(r) )
    => /\ Answered(r) /\ wh[r].resp = 400
       /\ wh[r].db = {} /\ wh[r].wrote = {} /\ wh[r].orderId = 0

\* a forged signature on a well-formed completed event of a paid session of
\* this server, sent to a variant that hands the raw body to the verifier
C6_Witness ==
  \E r \in Slots :
    /\ Answered(r) /\ wh[r].resp = 400
    /\ ~JsonBeforeWebhook(variant)
    /\ wh[r].sig.present /\ wh[r].sig.key = ForgedKey /\ wh[r].sig.payload = wh[r].ev
    /\ wh[r].ev.type = Completed
    /\ Sess(r).state = "complete" /\ Sess(r).payment_status = "paid" /\ Sess(r).server

\* C7: no JSON-parsing middleware consumes the body before the signature check,
\* so a notification correctly signed over its raw bytes passes verification:
\* it is never answered 400, and a completed one reaches the Order Materializer.
C7_RawBodyReachesVerifier ==
  \A r \in Slots :
    ( wh[r].pc # "idle" /\ CorrectlySigned(r) )
    => /\ wh[r].resp # 400
       /\ BodyForm(variant) = "raw"

\* C8: no webhook handler run ends, with any answer, having inserted its Order
\* row but not its OrderItem rows.
C8_OrderAndItemsTogether ==
  \A r \in Slots :
    ( Answered(r) /\ "orders" \in wh[r].wrote /\ wh[r].orderId # 0 )
    => "order_items" \in wh[r].wrote

\* C9: whenever the handler answers {received: true} to a verified
\* checkout-completed notification of a paid session created through this
\* server's checkout endpoint, an Order with that stripe_session_id exists.
C9_OrderExistsOnSuccess ==
  \A r \in Slots :
    ( /\ Answered(r) /\ wh[r].resp = 200 /\ VerifiedCompleted(r)
      /\ Sess(r).server /\ Sess(r).payment_status = "paid" )
    => \E i \in DOMAIN orders : orders[i].stripe_session_id = wh[r].ev.sid


\* ======================================= create-checkout-session, by request
\* a request arrives at a freshly started server
InitCheckout ==
  /\ InitStore
  /\ co \in {Request(b, h, f) : b \in RequestBodies, h \in AuthHeaders, f \in SingleFailures}

\* POST create-checkout-session: the pending request is handled and answered
HandleCheckout ==
  /\ co.status = 0
  /\ LET res == CreateCheckoutSession(variant, co.body, co.auth, co.fail)
         a == verifyAuth(variant, co.auth, co.fail.profile)
         who == ResolvedIdentity(variant, co.body, co.auth, co.fail)
     IN /\ co' = [co EXCEPT !.status = res.status, !.stripeCalled = res.stripeCalled,
                            !.user = res.user, !.created = res.created,
                            !.order = res.order,
                            !.next = UsesVerifyAuth(variant) /\ a.status = 0,
                            !.identity = who,
                            !.hadProfile = co.auth.sub \in profiles]
        /\ CheckoutEffects(co.body, res, who)
  /\ UNCHANGED <<variant, env, proc, au, carts, cart_items, order_items, order_history,
                 rls, wh, cartOps>>

NextCheckout == HandleCheckout

SpecCheckout == InitCheckout /\ [][NextCheckout]_vars

\* the request passed the identity check in front of the route, if there is one
PassedAuth == UsesVerifyAuth(variant) => co.next

\* C10: a create-checkout-session request whose line_items is an empty list or
\* absent is answered 400 and stripe.checkout.sessions.create is never called
\* for it.
C10_EmptyLineItemsRejected ==
  ( co.status # 0 /\ NoItemsInCart(co.body) /\ PassedAuth )
  => co.status = 400 /\ ~co.stripeCalled

\* C11: a create-checkout-session request that lacks success_url or cancel_url
\* is answered 400 and stripe.checkout.sessions.create is never called for it.
C11_MissingUrlsRejected ==
  ( co.status # 0 /\ (~co.body.success_url \/ ~co.body.cancel_url) /\ PassedAuth )
  => co.status = 400 /\ ~co.stripeCalled

\* the Authorization header is missing, or is no bearer token at all
Malformed(h) == h.kind \in {"none", "empty", "garbage"}

\* C12: a create-checkout-session request with a missing or malformed
\* Authorization bearer header is answered 401, writes no Profile row and
\* creates no processor checkout session.
C12_NoBearerUnauthenticated ==
  ( co.status # 0 /\ Malformed(co.auth) )
  => /\ co.status = 401
     /\ co.created = NoUser
     /\ ~co.stripeCalled
     /\ sessions = <<>>

\* C13: behind verifyAuth, a request whose bearer token the auth provider does
\* not verify is answered 401, req.user is not set for it and
\* stripe.checkout.sessions.create is not called for it.
C13_UnverifiedTokenRejected ==
  ( /\ co.status # 0 /\ UsesVerifyAuth(variant)
    /\ co.auth.kind = "jwt" /\ ~co.auth.verifies )
  => /\ co.status = 401
     /\ ~co.next
     /\ co.identity = NoUser
     /\ ~co.stripeCalled

\* C14: every checkout session this server created carries, as
\* metadata.user_id, the id of the identity resolved for the creating request,
\* and every Order of such a session has that same id as user_id.
C14_UserIdPreserved ==
  /\ \A s \in 1 .. Len(sessions) :
       sessions[s].server =>
         /\ sessions[s].identity # NoUser
         /\ sessions[s].user_id = sessions[s].identity
  /\ \A i \in DOMAIN orders :
       sessions[orders[i].stripe_session_id].server =>
         orders[i].user_id = sessions[orders[i].stripe_session_id].identity

\* a handler run inserted the Order of a completed session of this server and
\* answered {received: true}
C14_Witness ==
  \E r \in Slots :
    /\ Answered(r) /\ wh[r].resp = 200 /\ wh[r].orderId # 0
    /\ Sess(r).server /\ Sess(r).identity \in Users
    /\ orders[wh[r].orderId].user_id = Sess(r).identity

\* =============================== create-checkout-session, request by request
\* the storefront's body for shopper u with the example cart
AuthBody(u) ==
  [has_line_items |-> TRUE, line_items |-> ExampleCart, product_ids |-> TRUE,
   unit |-> "honest", success_url |-> TRUE, cancel_url |-> TRUE,
   customer_email |-> u, user_id |-> u]

\* requests with any Authorization header and any one failing outbound call
AuthRequests ==
  {Request(AuthBody(u), h, f) : u \in Users, h \in AuthHeaders, f \in SingleFailures}

InitAuth ==
  /\ InitStore
  /\ co \in AuthRequests

\* the next request arrives once the last one is answered
NextCall ==
  /\ co.status # 0
  /\ Len(sessions) < MaxSessions
  /\ co' \in AuthRequests
  /\ UNCHANGED <<variant, env, proc, au, profiles, carts, cart_items, orders, order_items,
                 order_history, rls, sessions, wh, cartOps>>

NextAuth == HandleCheckout \/ NextCall

SpecAuth == InitAuth /\ [][NextAuth]_vars

\* the request carries a bearer token that the auth provider verifies
ValidBearer == co.auth.kind = "jwt" /\ co.auth.verifies

NoFailures ==
  /\ ~co.fail.lookup /\ ~co.fail.stripe /\ ~co.fail.order
  /\ ~co.fail.profile.select /\ co.fail.profile.create = "ok"

\* C16: behind verifyAuth, a request of a verified user is passed on with a
\* Profile row of that user in place, created from the token's claims when
\* the user had none, instead of being rejected.
C16_ProfileCreatedOnFirstSight ==
  ( co.status # 0 /\ UsesVerifyAuth(variant) /\ ValidBearer /\ NoFailures )
  => co.next /\ co.auth.sub \in profiles

\* the lookup found no Profile row and no insert created one
CreateFailed ==
  /\ ValidBearer
  /\ ~co.hadProfile \/ co.fail.profile.select
  /\ co.created = NoUser

\* C17: if creating the Profile row fails, verifyAuth answers 500, does not
\* call next(), and stripe.checkout.sessions.create is not called for the
\* request.
C17_ProvisioningFailureIs500 ==
  ( co.status # 0 /\ Provisions(variant) /\ CreateFailed )
  => /\ co.status = 500
     /\ ~co.next
     /\ ~co.stripeCalled
     /\ co.user = NoUser

\* the insert for a user without Profile row was answered with an error
C17_Witness ==
  /\ co.status = 500 /\ Provisions(variant) /\ CreateFailed
  /\ co.auth.sub = "u2" /\ ~co.hadProfile
  /\ co.fail.profile.create = "error"

\* ================================================= webhook failure handling
\* C18: when the user named by a verified checkout-completed notification has
\* no cart, the run inserts nothing into orders or order_items, deletes no
\* cart_items and answers 500, never {received: true}.
C18_NoCartFails ==
  \A r \in Slots :
    ( /\ VerifiedCompleted(r)
      /\ Sess(r).user_id \in Users /\ Sess(r).user_id \notin carts )
    => /\ wh[r].db \cap {"orders.insert", "order_items.insert", "cart_items.delete"} = {}
       /\ Answered(r) => wh[r].resp = 500

\* the run's insert into orders, or into order_items, returned an error
InsertFailed(r) ==
  \/ "orders.insert" \in wh[r].db /\ "orders" \notin wh[r].wrote
  \/ "order_items.insert" \in wh[r].db /\ "order_items" \notin wh[r].wrote

OrderStatuses == {"pending", "processing", "completed"}

\* every status in the table, and every status a handler run wrote with its
\* update, is one of the three
StatusesKnown ==
  /\ \A i \in DOMAIN orders : orders[i].status \in OrderStatuses
  /\ \A r \in Slots :
       "orders.update" \in wh[r].db => UpdatedStatus(variant) \in OrderStatuses

\* a step changes a status only in a webhook run and only from pending or
\* processing to completed; a row the checkout endpoint inserts is not
\* completed
StatusStep ==
  /\ \A i \in DOMAIN orders :
       orders'[i].status # orders[i].status =>
         /\ wh' # wh
         /\ orders[i].status \in {"pending", "processing"}
         /\ orders'[i].status = "completed"
  /\ \A i \in DOMAIN orders' :
       (i \notin DOMAIN orders /\ wh' = wh) => orders'[i].status # "completed"

\* C20: an Order's status is changed only by the notification handler and only
\* from pending or processing to completed: the checkout endpoint never writes
\* completed, the handler never writes a status outside {pending, processing,
\* completed}, and a completed Order never returns to pending or processing.
C20_StatusTransitions == [][StatusStep /\ StatusesKnown']_vars

(***************************************************************************)
(* Startup of the process with any subset of the configuration values.     *)
(***************************************************************************)
InitStartup ==
  /\ InitTables
  /\ co = Request(StorefrontBody("u1", "honest"), ValidToken("u1"), NoFailure)
  /\ env \in SUBSET EnvVars
  /\ proc = "starting"
  /\ au = [k \in AuthSlots |-> IdleAuth]

\* the module-level code runs to app.listen or throws before it
Startup ==
  /\ proc = "starting"
  /\ \E strict \in BOOLEAN : proc' = StartupOutcome(variant, env, strict)
  /\ UNCHANGED <<variant, env, au, profiles, carts, cart_items, orders, order_items,
                 order_history, rls, sessions, wh, co, cartOps>>

NextStartup == Startup

SpecStartup == InitStartup /\ [][NextStartup]_vars

(***************************************************************************)
(* Redelivery: the processor sends a notification again after the server   *)
(* has answered it, and the server handles it like any other.              *)
(***************************************************************************)
\* no webhook run is between its request and its answer
NoRunInFlight == \A r \in Slots : wh[r].pc \in {"idle", "done", "escaped"}

FirstDelivery == Quiet /\ Receive

\* the request of an answered run arrives once more, byte for byte
Redelivery ==
  /\ ~Quiet
  /\ NoRunInFlight
  /\ \E r \in Slots, q \in Slots :
       /\ wh[q].pc # "idle"
       /\ WebhookReceive(r, wh[q].ev, wh[q].sig)

NextReplay ==
  \/ QuietCheckout
  \/ QuietExternalSession
  \/ QuietComplete
  \/ FirstDelivery
  \/ Redelivery
  \/ \E r \in Slots : GetCart(r)
  \/ \E r \in Slots : GetItems(r)
  \/ \E r \in Slots : InsertOrder(r)
  \/ \E r \in Slots : InsertItems(r)
  \/ \E r \in Slots : UpdateOrder(r)
  \/ \E r \in Slots : ClearCart(r)

SpecReplay == Init /\ [][NextReplay]_vars

(***************************************************************************)
(* Concurrent requests: verifyAuth runs of the provisioning variants,      *)
(* interleaved at their awaits.                                            *)
(***************************************************************************)
InitConcurrent ==
  /\ Init
  /\ Provisions(variant)

Arrive == \E k \in AuthSlots, u \in Users, pf \in ProfileFailures : AuthArrive(k, u, pf)

NextConcurrent ==
  \/ Arrive
  \/ \E k \in AuthSlots : SelectProfile(k)
  \/ \E k \in AuthSlots : DisableRls(k)
  \/ \E k \in AuthSlots : InsertProfileRow(k)
  \/ \E k \in AuthSlots : EnableRls(k)
  \/ \E k \in AuthSlots : AltInsert(k)

SpecConcurrent == InitConcurrent /\ [][NextConcurrent]_vars

\* C21: every request ends with exactly one HTTP response and no exception
\* leaves its handler, also when the session of the event has no metadata: no
\* webhook run ends outside its try/catch and every run that ended has its
\* answer.
C21_ErrorsCaughtAtBoundary ==
  \A r \in Slots :
    /\ wh[r].pc # "escaped"
    /\ Answered(r) => wh[r].resp # 0

\* C22: the server never reaches the listening state with the processor secret
\* key, the processor webhook shared secret, the datastore URL or the datastore
\* service-role key unset.
C22_StartupValidatesConfig == proc = "listening" => RequiredConfig \subseteq env

\* the run in slot r handles a verified checkout-completed notification that
\* the run in slot q has already answered with {received: true}
RedeliveryOf(r, q) ==
  /\ r # q
  /\ wh[r].pc # "idle"
  /\ VerifiedCompleted(q)
  /\ wh[q].pc = "done" /\ wh[q].resp = 200
  /\ wh[r].ev = wh[q].ev /\ wh[r].sig = wh[q].sig

\* the run in slot r ended because its order update failed in the datastore
UpdateFailed(r) == Answered(r) /\ wh[r].resp = 500 /\ wh[r].db = {"orders.update"}

\* C23: in part_001_c, no step of a run that handles a notification again
\* after it was answered {received: true} adds or removes an Order row or
\* changes an Order's status, the session's Order stays completed, and the
\* run is answered {received: true} unless its datastore update fails.
C23_RedeliveryIdempotent ==
  [][\A r \in Slots, q \in Slots :
       (variant = "part_001_c" /\ RedeliveryOf(r, q)' /\ wh'[r] # wh[r]) =>
         /\ Len(orders') = Len(orders)
         /\ \A i \in DOMAIN orders : orders'[i].status = orders[i].status
         /\ \A i \in DOMAIN orders :
              orders[i].stripe_session_id = wh'[r].ev.sid =>
                orders'[i].status = "completed"
         /\ (Answered(r)' /\ ~UpdateFailed(r)') => wh'[r].resp = 200]_vars

\* a second delivery was answered and the session's Order is completed
C23_Witness ==
  /\ variant = "part_001_c"
  /\ \E r \in Slots, q \in Slots :
       /\ RedeliveryOf(r, q)
       /\ Answered(r) /\ wh[r].resp = 200
       /\ \E i \in DOMAIN orders :
            orders[i].stripe_session_id = wh[r].ev.sid /\ orders[i].status = "completed"

\* C24: a webhook run deletes cart items only if an Order for its
\* notification's session exists in the datastore, and, in the variants that
\* insert the Order in the webhook, that Order's items were persisted.
C24_CartClearedOnlyAfterOrder ==
  \A r \in Slots :
    "cart_items" \in wh[r].wrote =>
      \E i \in DOMAIN orders :
        /\ orders[i].stripe_session_id = wh[r].ev.sid
        /\ ~UpdateMaterializer(variant) => ItemsOfOrder(orders[i].id) # {}

\* the run in slot k has called disable_rls and not yet enable_rls
BetweenDisableAndEnable(k) == au[k].pc \in {"insert", "enable"}

NoAuthInFlight == \A k \in AuthSlots : au[k].pc \in {"idle", "done"}

\* C25: a run that called disable_rls calls enable_rls before it answers, so
\* row-level security is enabled whenever no request is in flight, and no run
\* re-enables it while another run is between its own disable_rls and
\* enable_rls.
C25_RlsPaired ==
  [][/\ NoAuthInFlight' => rls'
     /\ \A k \in AuthSlots :
          (au[k].pc = "enable" /\ au'[k].pc # "enable") =>
            \A j \in AuthSlots \ {k} : ~BetweenDisableAndEnable(j)]_vars

\* the run in slot k found no profile row and went on to create one
FirstSight(k) == au[k].create # "none"

\* no datastore call of the run in slot k was made to fail
NoAuthFailure(k) == au[k].pf = [select |-> FALSE, create |-> "ok", alt |-> FALSE]

\* C27: when two authenticated requests of one user who has no Profile are
\* handled concurrently and no datastore call is made to fail, both call
\* next() with that user's id, neither is answered 500, and the user's
\* Profile row exists afterwards.
C27_ConcurrentFirstRequests ==
  \A j \in AuthSlots, k \in AuthSlots :
    ( /\ j # k
      /\ au[j].pc = "done" /\ au[k].pc = "done"
      /\ au[j].user = au[k].user
      /\ FirstSight(j) \/ FirstSight(k)
      /\ NoAuthFailure(j) /\ NoAuthFailure(k) ) =>
        /\ au[j].next /\ au[k].next
        /\ au[j].status # 500 /\ au[k].status # 500
        /\ au[j].user \in profiles

\* C26: in the variants that create the Order in the webhook, every cart row
\* that a run's cart delete removes is an OrderItem, with its product and at
\* least its quantity, of the Order the run created, also when the storefront
\* changes the cart between the run's cart read and its cart delete.
C26_DeletedItemsAreOrdered ==
  [][\A r \in Slots :
       ( /\ ~UpdateMaterializer(variant)
         /\ wh[r].pc = "clearCart" /\ wh'[r].pc = "done"
         /\ Sess(r).user_id \in Users ) =>
         \A p \in Products :
           (cart_items[Sess(r).user_id][p] > 0 /\ cart_items'[Sess(r).user_id][p] = 0) =>
             \E row \in ItemsOfOrder(wh[r].orderId) :
               /\ row.product_id = p
               /\ row.quantity >= cart_items[Sess(r).user_id][p]]_vars

\* C30: in part_001_b a well-formed request whose body user_id differs from
\* req.user.id is answered 401 without a processor checkout session, and
\* the metadata.user_id of a session the server created is the id of the user
\* the auth provider verified the caller to be.
C30_BodyUserIdIsCaller ==
  (variant = "part_001_b" /\ co.status # 0) =>
    /\ ( /\ co.next
         /\ ~MissingRequiredFields(co.body, TRUE)
         /\ co.body.user_id # co.identity ) =>
           (co.status = 401 /\ ~co.stripeCalled /\ sessions = <<>>)
    /\ \A s \in 1 .. Len(sessions) :
         sessions[s].server => sessions[s].user_id = GetUser(co.auth)

\* the run in slot r got a verified notification of another event type
VerifiedOther(r) ==
  /\ wh[r].pc # "idle"
  /\ constructEvent(BodyForm(variant), wh[r].ev, wh[r].sig)
  /\ wh[r].ev.type # Completed

\* C28: a verified notification whose event type is not
\* checkout.session.completed is answered {received: true}, and its run makes
\* no datastore call and changes none of orders, order_items, cart_items and
\* profiles.
C28_OtherEventsAcknowledged ==
  \A r \in Slots :
    VerifiedOther(r)
    => /\ Answered(r) /\ wh[r].resp = 200
       /\ wh[r].db = {} /\ wh[r].wrote = {} /\ wh[r].orderId = 0

\* a verified payment_intent.succeeded notification of a completed, paid
\* session of this server was answered
C28_Witness ==
  \E r \in Slots :
    /\ VerifiedOther(r) /\ Answered(r) /\ wh[r].resp = 200
    /\ Sess(r).state = "complete" /\ Sess(r).server
    /\ Sess(r).user_id \in Users /\ ~IsEmpty(cart_items[Sess(r).user_id])

\* C29: in part_001_a a checkout-completed notification that carries the
\* processor's signature and whose session is not paid is answered
\* {received: true}; its run creates no Order, OrderItem or order-history entry
\* and deletes no cart item.
C29_UnpaidAcknowledged ==
  \A r \in Slots :
    ( /\ variant = "part_001_a"
      /\ wh[r].pc # "idle" /\ CorrectlySigned(r)
      /\ wh[r].ev.type = Completed
      /\ Sess(r).payment_status # "paid" )
    => /\ Answered(r) /\ wh[r].resp = 200
       /\ wh[r].db = {} /\ wh[r].wrote = {} /\ wh[r].orderId = 0
       /\ orders = <<>> /\ order_items = {} /\ order_history = {}

====
